---- MODULE Spec2Model ----
\* Model of src/db.js: the ShareHive shared IndexedDB shim.
\* The store engine (IndexedDB) is modelled by its open algorithm: a FIFO
\* queue of open requests, version comparison, the versionchange event and the
\* upgrade transaction.  Each action is one event-loop task: the engine event
\* plus the handler of db.js it fires and every promise continuation that runs
\* before the next suspension point.
EXTENDS Integers, Sequences, FiniteSets, TLC

\* ---------------------------------------------------------------- bounds
MaxTasks == 3
MaxExternal == 2
MaxExtCallers == 2
MaxLiveCallers == 2
MaxCrudCallers == 2

\* ---------------------------------------------------------------- names
\* Names are sequences of one-character strings so that toLowerCase and
\* includes can be computed.
notes_ == <<"n","o","t","e","s">>
bookmarks_ == <<"b","o","o","k","m","a","r","k","s">>
videos_ == <<"v","i","d","e","o","s">>
todos_ == <<"t","o","d","o","s">>
expenses_ == <<"e","x","p","e","n","s","e","s">>
planner_ == <<"p","l","a","n","n","e","r">>
wiki_ == <<"w","i","k","i">>
uploads_ == <<"u","p","l","o","a","d","s">>
projects_ == <<"p","r","o","j","e","c","t","s">>
watchlist_ == <<"w","a","t","c","h","l","i","s","t">>
courses_ == <<"c","o","u","r","s","e","s">>
profile_ == <<"p","r","o","f","i","l","e">>
community_ == <<"c","o","m","m","u","n","i","t","y">>
expense_categories_ == <<"e","x","p","e","n","s","e","_","c","a","t","e","g","o","r","i","e","s">>
todo_categories_ == <<"t","o","d","o","_","c","a","t","e","g","o","r","i","e","s">>
todo_ == <<"t","o","d","o">>
a_ == <<"a">>
b_ == <<"b">>

TARGET_NAME == <<"h","i","v","e","d","b">>
TARGET_VERSION == 1
STORES ==
  { notes_, bookmarks_, videos_, todos_, expenses_, planner_, wiki_,
    uploads_, projects_, watchlist_, courses_, profile_, community_ }

\* The wanted list ensureDB passes to createMissingStores (line 20).
EnsureWanted == STORES \cup { expense_categories_, todo_categories_ }

\* ---------------------------------------------------------------- JS values
JStr(s) == [type |-> "string", val |-> s]
JNum(n) == [type |-> "number", val |-> <<n>>]
JNull == [type |-> "null", val |-> <<>>]

UpperChars == <<"A","B","C","D","E","F","G","H","I","J","K","L","M",
                "N","O","P","Q","R","S","T","U","V","W","X","Y","Z">>
LowerChars == <<"a","b","c","d","e","f","g","h","i","j","k","l","m",
                "n","o","p","q","r","s","t","u","v","w","x","y","z">>

LowerChar(c) ==
  IF \E i \in 1..26 : UpperChars[i] = c
  THEN LowerChars[CHOOSE i \in 1..26 : UpperChars[i] = c]
  ELSE c

toLowerCase(s) == [i \in 1..Len(s) |-> LowerChar(s[i])]

includes(s, sub) ==
  \E i \in 0..(Len(s) - Len(sub)) : SubSeq(s, i + 1, i + Len(sub)) = sub

\* ---------------------------------------------------------------- patched open
sharehive_ == <<"s","h","a","r","e","h","i","v","e">>
share_us_hive_ == <<"s","h","a","r","e","_","h","i","v","e">>
share_da_hive_ == <<"s","h","a","r","e","-","h","i","v","e">>
sharehivedb_ == <<"s","h","a","r","e","h","i","v","e","d","b">>
ShareHiveDB_ == <<"S","h","a","r","e","H","i","v","e","D","B">>

\* An absent (undefined / null) version argument.
NoVersion == -1

\* The name rewrite without the toLowerCase of line 37.
OpenNameNoLower(name) ==
  IF name.type = "string"
  THEN LET lower == name.val
           n1 == IF \/ includes(lower, sharehive_)
                    \/ includes(lower, share_us_hive_)
                    \/ includes(lower, share_da_hive_)
                    \/ lower = sharehivedb_
                 THEN JStr(TARGET_NAME) ELSE name
       IN IF n1 = JStr(ShareHiveDB_) THEN JStr(TARGET_NAME) ELSE n1
  ELSE name

\* indexedDB.open (patched), lines 36-42: the name handed to nativeOpen.
OpenName(name) ==
  IF name.type = "string"
  THEN LET lower == toLowerCase(name.val)
           n1 == IF \/ includes(lower, sharehive_)
                    \/ includes(lower, share_us_hive_)
                    \/ includes(lower, share_da_hive_)
                    \/ lower = sharehivedb_
                 THEN JStr(TARGET_NAME) ELSE name
       IN IF n1 = JStr(ShareHiveDB_) THEN JStr(TARGET_NAME) ELSE n1
  ELSE name

\* The version rewrite forcing the minimum on every versioned open.
OpenVersionForced(version) ==
  IF version = NoVersion THEN NoVersion ELSE TARGET_VERSION

\* indexedDB.open (patched), lines 44-47: the version handed to nativeOpen.
OpenVersion(version) ==
  IF version = NoVersion THEN NoVersion
  ELSE IF version < TARGET_VERSION THEN TARGET_VERSION
  ELSE version

\* ---------------------------------------------------------------- accessor helpers
\* JavaScript truthiness of a name argument (line 57).
Falsy(v) ==
  \/ v.type = "null"
  \/ v.type = "string" /\ v.val = <<>>
  \/ v.type = "number" /\ v.val = <<0>>

\* _normalizeStoreName without the alias of line 59.
_normalizeStoreNameNoAlias(name) ==
  IF Falsy(name) THEN [ok |-> FALSE, val |-> <<>>]
  ELSE [ok |-> TRUE, val |-> name.val]

\* dbHelpers._normalizeStoreName, lines 56-61 (string and null arguments).
_normalizeStoreName(name) ==
  IF Falsy(name) THEN [ok |-> FALSE, val |-> <<>>]
  ELSE IF toLowerCase(name.val) = todo_ THEN [ok |-> TRUE, val |-> todos_]
  ELSE [ok |-> TRUE, val |-> name.val]

\* createMissingStores, line 147: the wanted stores the handle does not list.
Missing(wantedStores, objectStoreNames) ==
  { s \in wantedStores : s \notin objectStoreNames }

\* A version bump of two instead of one.
NewVersionPlusTwo(version) == version + 2

\* createMissingStores, line 149.
NewVersion(version) == version + 1

\* ensureDB forcing a version on its open.
EnsureOpenVersionForced == TARGET_VERSION + 1

\* ensureDB, line 14: ensureDB opens without a version.
EnsureOpenVersion == NoVersion

\* ensureDB, line 19: some required store is not in the handle.
EnsureNeedsStores(objectStoreNames) ==
  \/ \E s \in STORES : s \notin objectStoreNames
  \/ expense_categories_ \notin objectStoreNames
  \/ todo_categories_ \notin objectStoreNames

\* onupgradeneeded with the test of line 155 inverted.
UpgradeCreatesInverted(missing, objectStoreNames) ==
  { n \in missing : n \in objectStoreNames }

\* createMissingStores onupgradeneeded, lines 154-156: the names on which
\* createObjectStore is called.
UpgradeCreates(missing, objectStoreNames) ==
  { n \in missing : n \notin objectStoreNames }

\* _validateStore, line 65: the handle lacks the store.
ValidateNeedsStore(objectStoreNames, name) == name \notin objectStoreNames

\* _validateStore without its final existence check.
ValidateOkUnchecked(objectStoreNames, name) == TRUE

\* _validateStore, line 69: the final existence check.
ValidateOk(objectStoreNames, name) == name \in objectStoreNames

\* A structured record the application passes: hasId tells whether it has an
\* own property id.
JObj(hasId, id, text) ==
  [ type |-> "object", hasId |-> hasId, id |-> id, text |-> text ]

\* addItem that accepts whatever it is given.
AddItemInvalidNever(item) == FALSE

\* addItem, line 74: !item || typeof item !== 'object'.
AddItemInvalid(item) == Falsy(item) \/ item.type # "object"

\* updateItem, line 116: !item || !hasOwnProperty(item, 'id').
UpdateItemInvalid(item) ==
  Falsy(item) \/ item.type # "object" \/ ~item.hasId

\* The argument checks the operations make before _validateStore.
ArgInvalid(op, x) ==
  CASE op = "addItem" -> AddItemInvalid(x)
    [] op = "updateItem" -> UpdateItemInvalid(x)
    [] OTHER -> FALSE

\* addItem storing the copy with the id the caller supplied.
AddItemObjectsKeepId(item) ==
  [ payload |-> IF item.type = "object" THEN item ELSE JObj(FALSE, 0, ""),
    item |-> item ]

\* addItem, lines 80-81: the caller's object and the payload after
\* Object.assign({}, item || {}) and delete payload.id.
AddItemObjects(item) ==
  [ payload |-> IF item.type = "object"
                THEN [item EXCEPT !.hasId = FALSE, !.id = 0]
                ELSE JObj(FALSE, 0, ""),
    item |-> item ]

\* Number(id), lines 107 and 134 (NaN: ok is FALSE).
Number(v) ==
  CASE v.type = "number" -> [ok |-> TRUE, val |-> v.val[1]]
    [] v.type = "null" -> [ok |-> TRUE, val |-> 0]
    [] OTHER -> [ok |-> FALSE, val |-> 0]

Max(a, b) == IF a >= b THEN a ELSE b

\* ---------------------------------------------------------------- state
VARIABLES
  storeVersion,   \* version of the canonical store; 0 = not yet created
  storeNames,     \* object stores of the canonical store
  handles,        \* every IDBDatabase connection opened so far
  queue,          \* the engine's FIFO queue of open requests
  tasks,          \* the bootstrap call (task 0) and the callers' calls
  cacheDb,        \* dbHelpers.db (0 = null)
  hiveDB,         \* window.hiveDB (0 = unset)
  lastOpen,       \* the last call of the patched indexedDB.open
  created,        \* history: createObjectStore calls per name
  lastUpgrade,    \* history: the last upgrade transaction
  externals,      \* history: upgrades made by other execution contexts
  records,        \* the records of each object store
  keygen          \* the key generator of each object store

vars == << storeVersion, storeNames, handles, queue, tasks, cacheDb, hiveDB,
           lastOpen, created, lastUpgrade, externals, records, keygen >>

Boot == 0
Tasks == 0..MaxTasks
Callers == 1..MaxTasks

CrudOps == { "getAll" }
NameArgs == { JStr(todo_), JStr(a_), JStr(b_), JNull }
AllStoreNames == EnsureWanted \cup { a_, b_, todo_ }

\* The database the page finds when it loads: none (version 0), a legacy one
\* holding only some of the stores, or a complete one.
InitStores ==
  { [version |-> 0, names |-> {}],
    [version |-> 1, names |-> { notes_ }],
    [version |-> 1, names |-> EnsureWanted] }

IdleTask ==
  [ op |-> "none", pc |-> "idle", arg |-> JNull, name |-> <<>>,
    via |-> "none", origin |-> "none", db |-> 0, err |-> "none",
    missing |-> {}, obsVersion |-> 0,
    ensRes |-> 0, cmsRes |-> 0, cmsWanted |-> {},
    getDBRet |-> 0, getDBState |-> "none", prov |-> FALSE, cacheAfter |-> 0,
    v0 |-> 0, names0 |-> {}, quiet0 |-> FALSE, vRes |-> 0, namesRes |-> {},
    reopened |-> FALSE, validated |-> FALSE, peers |-> {}, shared |-> {},
    cmsDb |-> 0, txState |-> "none", afterErr |-> FALSE,
    item |-> JNull, itemAfter |-> JNull, key |-> 0, kg0 |-> 0,
    before |-> {}, after |-> {}, got |-> {} ]

OpenCall(name, version) ==
  [ reqName |-> name, reqVersion |-> version,
    name |-> OpenName(name), version |-> OpenVersion(version) ]

\* The request the engine receives from nativeOpen; missing is the closure of
\* the onupgradeneeded handler ({} when the caller sets none).
Request(t, name, version, missing) ==
  [ task |-> t, name |-> OpenName(name), version |-> OpenVersion(version),
    missing |-> missing ]

\* ---------------------------------------------------------------- handlers
\* The handlers of db.js are functions of a world W: the layer's variables as
\* they are when the handler starts (sv, sn: the store after the engine's own
\* part of the step).
World(h, sv, sn) ==
  [ handles |-> h, queue |-> queue, tasks |-> tasks, cacheDb |-> cacheDb,
    hiveDB |-> hiveDB, lastOpen |-> lastOpen, sv |-> sv, sn |-> sn,
    records |-> records, keygen |-> keygen ]

IsOpen(W, h) == W.handles[h].state = "open"

\* db.close() (lines 17, 150, 158): closing a closed connection does nothing.
Close(W, h, how) ==
  IF IsOpen(W, h) THEN [W EXCEPT !.handles[h].state = how] ELSE W

\* indexedDB.open(TARGET_NAME, version): the patched open hands the
\* normalized request to the engine.
Open(W, t, version, missing) ==
  [W EXCEPT !.queue = Append(@, Request(t, JStr(TARGET_NAME), version, missing)),
            !.lastOpen = OpenCall(JStr(TARGET_NAME), version)]

\* A rejected promise reaches the caller of the operation.
Fail(W, t, err) ==
  [W EXCEPT !.tasks[t].pc = "failed", !.tasks[t].err = err]

\* The engine stores value under key in an object store with keyPath 'id' and
\* a key generator (line 155): the key is written into the stored record and
\* an explicit numeric key moves the generator past it.
Store(W, t, name, key, text) ==
  [W EXCEPT !.records[name] =
              { r \in @ : r.id # key } \cup { [id |-> key, text |-> text] },
            !.keygen[name] = Max(@, key + 1),
            !.tasks[t].key = key,
            !.tasks[t].pc = "done"]

\* store.add(payload), line 82: an explicit key that exists is a
\* ConstraintError; without one the key generator supplies the key.
Add(W, t, name, payload) ==
  IF payload.hasId
  THEN IF \E r \in W.records[name] : r.id = payload.id
       THEN Fail(W, t, "ConstraintError")
       ELSE Store(W, t, name, payload.id, payload.text)
  ELSE Store(W, t, name, W.keygen[name], payload.text)

\* The request each operation makes in its transaction (lines 82, 95, 107,
\* 122, 134) and the value its success event carries.
TxRequest(W, t) ==
  LET name == W.tasks[t].name
      op == W.tasks[t].op
      x == W.tasks[t].item
      W0 == [W EXCEPT !.tasks[t].before = W.records[name],
                      !.tasks[t].kg0 = W.keygen[name]]
      W1 == CASE op = "addItem" ->
                   Add([W0 EXCEPT !.tasks[t].itemAfter = AddItemObjects(x).item],
                       t, name, AddItemObjects(x).payload)
              [] op = "updateItem" -> Store(W0, t, name, x.id, x.text)
              [] op = "getAll" ->
                   [W0 EXCEPT !.tasks[t].got = W.records[name],
                              !.tasks[t].pc = "done"]
              [] op = "getItem" ->
                   IF Number(x).ok
                   THEN [W0 EXCEPT !.tasks[t].got =
                                     { r \in W.records[name] : r.id = Number(x).val },
                                   !.tasks[t].pc = "done"]
                   ELSE Fail(W0, t, "DataError")
              [] op = "deleteItem" ->
                   IF Number(x).ok
                   THEN [W0 EXCEPT !.records[name] =
                                     { r \in @ : r.id # Number(x).val },
                                   !.tasks[t].pc = "done"]
                   ELSE Fail(W0, t, "DataError")
  IN [W1 EXCEPT !.tasks[t].after = W1.records[name]]

\* db.transaction(name, mode) in the CRUD operations (lines 93, 78, ...) and
\* the request made in it; the engine serializes the transactions of a store
\* in the order they are created.
StartTx(W, t, db) ==
  IF ~IsOpen(W, db) THEN Fail(W, t, "InvalidStateError")
  ELSE IF W.tasks[t].name \notin W.handles[db].names
       THEN Fail(W, t, "NotFoundError")
  ELSE TxRequest(W, t)

\* _validateStore, lines 69-70, and the transaction of the operation that
\* awaited it.
ValidateReturn(W, t, db) ==
  LET W1 == [W EXCEPT !.tasks[t].db = db, !.tasks[t].cacheAfter = W.cacheDb,
                      !.tasks[t].txState = W.handles[db].state]
  IN IF ~ValidateOk(W.handles[db].names, W.tasks[t].name)
     THEN Fail(W1, t, "ContainerMissing")
     ELSE StartTx([W1 EXCEPT !.tasks[t].validated = TRUE], t, db)

\* History: the calls whose reopen is pending and which observed, at the same
\* version, one of the stores this call finds missing.
Peers(W, t, db, missing) ==
  { u \in DOMAIN W.tasks :
      /\ u # t
      /\ W.tasks[u].pc = "reopen"
      /\ W.tasks[u].obsVersion = W.handles[db].version
      /\ W.tasks[u].missing \cap missing # {} }

\* createMissingStores reopening without closing the handle it was given.
KeepOpenBeforeReopen(W, db) == W

\* createMissingStores, line 150: db.close() before the reopen.
CloseBeforeReopen(W, db) == Close(W, db, "closed")

\* createMissingStores, lines 149-151: close the handle, reopen one version up.
CmsReopen(W, t, db, missing, wanted, origin) ==
  LET W1 == [W EXCEPT !.tasks[t].pc = "reopen",
                      !.tasks[t].origin = origin,
                      !.tasks[t].missing = missing,
                      !.tasks[t].cmsWanted = wanted,
                      !.tasks[t].cmsRes = 0,
                      !.tasks[t].peers = Peers(W, t, db, missing),
                      !.tasks[t].shared =
                        UNION { W.tasks[u].missing \cap missing :
                                  u \in Peers(W, t, db, missing) },
                      !.tasks[t].obsVersion = W.handles[db].version,
                      !.tasks[t].cmsDb = db,
                      !.tasks[t].reopened = TRUE]
  IN Open(CloseBeforeReopen(W1, db), t, NewVersion(W.handles[db].version), missing)

\* _validateStore, lines 64-68, from the handle _getDB returned.
ValidateWith(W, t, db) ==
  LET name == W.tasks[t].name
      names == W.handles[db].names
      W1 == [W EXCEPT !.tasks[t].getDBRet = db,
                      !.tasks[t].getDBState = W.handles[db].state]
  IN IF ValidateNeedsStore(names, name)
     THEN LET missing == Missing({name}, names)
          IN IF missing = {}
             THEN ValidateReturn([W1 EXCEPT !.tasks[t].cmsRes = db,
                                            !.tasks[t].cmsWanted = {name}], t, db)
             ELSE CmsReopen(W1, t, db, missing, {name}, "validate")
     ELSE ValidateReturn(W1, t, db)

\* ensureDB resolved with h: the continuation of its caller (line 169-170 for
\* the bootstrap, line 55 for _getDB).
EnsureResolved(W, t, h) ==
  LET W1 == [W EXCEPT !.tasks[t].ensRes = h, !.tasks[t].vRes = W.sv,
                      !.tasks[t].namesRes = W.sn]
  IN CASE W.tasks[t].via = "bootstrap" ->
            [W1 EXCEPT !.cacheDb = h, !.hiveDB = h,
                       !.tasks[t].pc = "done", !.tasks[t].db = h]
       [] W.tasks[t].via = "ensure" ->
            [W1 EXCEPT !.tasks[t].pc = "done", !.tasks[t].db = h]
       [] W.tasks[t].via = "getDB" ->
            ValidateWith([W1 EXCEPT !.cacheDb = h], t, h)

\* ensureDB req.onsuccess, lines 15-25 (the new handle h already carries the
\* onversionchange handler of line 17).
EnsureOnSuccess(W, t, h) ==
  LET names == W.handles[h].names
  IN IF EnsureNeedsStores(names)
     THEN LET missing == Missing(EnsureWanted, names)
          IN IF missing = {}
             THEN EnsureResolved([W EXCEPT !.hiveDB = h, !.tasks[t].cmsRes = h,
                                           !.tasks[t].cmsWanted = EnsureWanted], t, h)
             ELSE CmsReopen(W, t, h, missing, EnsureWanted, "ensureDB")
     ELSE EnsureResolved([W EXCEPT !.hiveDB = h], t, h)

\* createMissingStores req.onsuccess, line 158, and the continuation of the
\* caller (line 20 in ensureDB, line 67 in _validateStore).
CmsOnSuccess(W, t, nd) ==
  LET W1 == [W EXCEPT !.hiveDB = nd, !.tasks[t].cmsRes = nd]
  IN IF W.tasks[t].origin = "ensureDB"
     THEN EnsureResolved(W1, t, nd)
     ELSE ValidateReturn([W1 EXCEPT !.tasks[t].prov = TRUE], t, nd)

\* The success handler of the request a task is waiting for.
OnSuccess(W, t, h) ==
  IF W.tasks[t].pc = "open" THEN EnsureOnSuccess(W, t, h) ELSE CmsOnSuccess(W, t, h)

Install(W) ==
  /\ handles' = W.handles
  /\ queue' = W.queue
  /\ tasks' = W.tasks
  /\ cacheDb' = W.cacheDb
  /\ hiveDB' = W.hiveDB
  /\ lastOpen' = W.lastOpen
  /\ records' = W.records
  /\ keygen' = W.keygen

\* ---------------------------------------------------------------- initial state
\* The script has run: the bootstrap ensureDB() of line 168 has issued its
\* open request; dbHelpers.db is null.
Init ==
  /\ \E s \in InitStores : storeVersion = s.version /\ storeNames = s.names
  /\ handles = << >>
  /\ queue = << Request(Boot, JStr(TARGET_NAME), EnsureOpenVersion, {}) >>
  /\ tasks = [ t \in Tasks |->
               IF t = Boot
               THEN [IdleTask EXCEPT !.op = "bootstrap", !.via = "bootstrap",
                                     !.pc = "open", !.v0 = storeVersion,
                                     !.names0 = storeNames, !.quiet0 = TRUE]
               ELSE IdleTask ]
  /\ cacheDb = 0
  /\ hiveDB = 0
  /\ lastOpen = OpenCall(JStr(TARGET_NAME), EnsureOpenVersion)
  /\ created = [ n \in AllStoreNames |-> 0 ]
  /\ lastUpgrade = [ from |-> 0, to |-> 0, task |-> -1, creates |-> {},
                     reopen |-> FALSE ]
  /\ externals = 0
  /\ records = [ n \in AllStoreNames |-> {} ]
  /\ keygen = [ n \in AllStoreNames |-> 1 ]

\* ---------------------------------------------------------------- engine
\* The version the engine opens the head request at.
EffectiveVersion(r) ==
  IF r.version = NoVersion
  THEN (IF storeVersion = 0 THEN 1 ELSE storeVersion)
  ELSE r.version

\* A connection on which no onversionchange handler is set.
NewHandleNoHandler(version, names) ==
  [ version |-> version, names |-> names, state |-> "open",
    onversionchange |-> FALSE ]

\* The connection a success event carries; lines 17 and 158 set its
\* onversionchange handler first thing.
NewHandle(version, names) ==
  [ version |-> version, names |-> names, state |-> "open",
    onversionchange |-> TRUE ]

\* Every open connection receives versionchange; the handlers of lines 17 and
\* 158 close it.
VersionChange(hs) ==
  [ i \in DOMAIN hs |->
      IF hs[i].state = "open" /\ hs[i].onversionchange
      THEN [hs[i] EXCEPT !.state = "versionchange"] ELSE hs[i] ]

\* An upgrade waits for every connection to close.
UpgradeCanRun ==
  \A i \in DOMAIN handles : handles[i].state = "open" => handles[i].onversionchange

\* The requested version is below the store's: the request fails (line 26,
\* line 159) and the promise chain rejects.
OpenError ==
  /\ queue # << >>
  /\ LET r == Head(queue)
     IN /\ EffectiveVersion(r) < storeVersion
        /\ Install(Fail([World(handles, storeVersion, storeNames)
                           EXCEPT !.queue = Tail(queue)], r.task, "VersionError"))
  /\ UNCHANGED << storeVersion, storeNames, created, lastUpgrade, externals >>

\* The requested version is the store's: a connection, no upgrade.
OpenNoUpgrade ==
  /\ queue # << >>
  /\ LET r == Head(queue)
         h == Len(handles) + 1
         hs == Append(handles, NewHandle(storeVersion, storeNames))
     IN /\ EffectiveVersion(r) = storeVersion
        /\ Install(OnSuccess([World(hs, storeVersion, storeNames)
                                EXCEPT !.queue = Tail(queue)], r.task, h))
  /\ UNCHANGED << storeVersion, storeNames, created, lastUpgrade, externals >>

\* The requested version is above the store's: versionchange, the upgrade
\* transaction with onupgradeneeded (lines 152-157), then success.
OpenUpgrade ==
  /\ queue # << >>
  /\ UpgradeCanRun
  /\ LET r == Head(queue)
         v == EffectiveVersion(r)
         calls == UpgradeCreates(r.missing, storeNames)
         closed == VersionChange(handles)
         h == Len(handles) + 1
     IN /\ v > storeVersion
        /\ IF calls \cap storeNames # {}
           THEN \* createObjectStore throws ConstraintError: the upgrade aborts
                /\ Install(Fail([World(closed, storeVersion, storeNames)
                                   EXCEPT !.queue = Tail(queue)], r.task, "ConstraintError"))
                /\ UNCHANGED << storeVersion, storeNames, created, lastUpgrade >>
           ELSE /\ storeVersion' = v
                /\ storeNames' = storeNames \cup calls
                /\ created' = [ n \in AllStoreNames |->
                                  IF n \in calls THEN created[n] + 1 ELSE created[n] ]
                /\ lastUpgrade' = [ from |-> storeVersion, to |-> v,
                                    task |-> r.task, creates |-> calls,
                                    reopen |-> (tasks[r.task].pc = "reopen") ]
                /\ Install(OnSuccess(
                     [World(Append(closed, NewHandle(v, storeNames \cup calls)),
                            v, storeNames \cup calls)
                        EXCEPT !.queue = Tail(queue)], r.task, h))
  /\ UNCHANGED externals

\* ---------------------------------------------------------------- calls
Started(t) == tasks[t].pc # "idle"

\* Callers are interchangeable: they start in index order.
MayStart(t) ==
  /\ t \in Callers
  /\ ~Started(t)
  /\ t = 1 \/ Started(t - 1)

\* History: no request that names a version is waiting in the engine.
NoUpgradePending == \A i \in DOMAIN queue : queue[i].version = NoVersion

AtCall(t, op, arg) ==
  [World(handles, storeVersion, storeNames)
     EXCEPT !.tasks[t].op = op, !.tasks[t].arg = arg,
            !.tasks[t].v0 = storeVersion, !.tasks[t].names0 = storeNames,
            !.tasks[t].quiet0 = NoUpgradePending,
            !.tasks[t].afterErr = (\E u \in Tasks : tasks[u].err = "VersionError")]

\* ensureDB, lines 10-14, called as dbHelpers.ensure().
CallEnsure(t) ==
  /\ MayStart(t)
  /\ LET W == AtCall(t, "ensure", JNull)
     IN Install(Open([W EXCEPT !.tasks[t].via = "ensure", !.tasks[t].pc = "open"],
                     t, EnsureOpenVersion, {}))
  /\ UNCHANGED << storeVersion, storeNames, created, lastUpgrade, externals >>

\* A CRUD operation up to its first suspension: _normalizeStoreName,
\* _validateStore and _getDB (line 55).
CallItem(t, op, arg, x) ==
  /\ MayStart(t)
  /\ LET W == [AtCall(t, op, arg) EXCEPT !.tasks[t].item = x,
                                         !.tasks[t].itemAfter = x]
         n == _normalizeStoreName(arg)
     IN IF ~n.ok \/ ArgInvalid(op, x)
        THEN Install(Fail(W, t, "InvalidArgument"))
        ELSE LET W1 == [W EXCEPT !.tasks[t].name = n.val]
             IN IF cacheDb # 0
                THEN Install(ValidateWith(W1, t, cacheDb))
                ELSE Install(Open([W1 EXCEPT !.tasks[t].via = "getDB",
                                             !.tasks[t].pc = "open"],
                                  t, EnsureOpenVersion, {}))
  /\ UNCHANGED << storeVersion, storeNames, created, lastUpgrade, externals >>

\* getAll(storeName), lines 88-92.
CallCrud(t, op, arg) == CallItem(t, op, arg, JNull)

\* Without other execution contexts no request of this layer is ever below
\* the store's version, so OpenError is part of NextExt only.
Next ==
  \/ OpenNoUpgrade
  \/ OpenUpgrade
  \/ \E t \in Callers : CallEnsure(t)
  \/ \E t \in Callers, op \in CrudOps, arg \in NameArgs : CallCrud(t, op, arg)

Spec == Init /\ [][Next]_vars

\* Another execution context upgrades the store by one version: the
\* connections of this layer receive versionchange and their handlers (lines
\* 17 and 158) close them; the other context then releases its connection.
ExternalUpgrade ==
  /\ externals < MaxExternal
  /\ storeVersion >= 1
  /\ UpgradeCanRun
  /\ storeVersion' = storeVersion + 1
  /\ handles' = VersionChange(handles)
  /\ lastUpgrade' = [ from |-> storeVersion, to |-> storeVersion + 1,
                      task |-> -1, creates |-> {}, reopen |-> FALSE ]
  /\ externals' = externals + 1
  /\ UNCHANGED << storeNames, queue, tasks, cacheDb, hiveDB, lastOpen, created,
                  records, keygen >>

ExtCallers == 1..MaxExtCallers

NextExt ==
  \/ OpenError
  \/ OpenNoUpgrade
  \/ OpenUpgrade
  \/ \E t \in ExtCallers : CallEnsure(t)
  \/ \E t \in ExtCallers, op \in CrudOps, arg \in NameArgs : CallCrud(t, op, arg)
  \/ ExternalUpgrade

\* The layer together with other execution contexts that upgrade the store.
SpecExt == Init /\ [][NextExt]_vars

\* The layer under an engine that eventually answers every open request: the
\* event loop eventually runs the event of the request at the head of the queue.
LiveCallers == 1..MaxLiveCallers

\* Each call names a container that does not exist yet, so each one closes its
\* handle and queues a reopen that needs an upgrade.
LiveArgs == { JStr(a_) }

NextLive ==
  \/ OpenNoUpgrade
  \/ OpenUpgrade
  \/ \E t \in LiveCallers : CallEnsure(t)
  \/ \E t \in LiveCallers, op \in CrudOps, arg \in LiveArgs : CallCrud(t, op, arg)

SpecLive ==
  /\ Init
  /\ [][NextLive]_vars
  /\ WF_vars(OpenNoUpgrade \/ OpenUpgrade)

\* The calls the application makes on records: [op, arg, x] is op(arg, x).
r1 == JObj(FALSE, 0, "r1")
r2 == JObj(TRUE, 1, "r2")
r5 == JObj(TRUE, 5, "r5")
u1 == JObj(TRUE, 1, "u1")

CrudCalls ==
  { [op |-> "addItem", arg |-> JStr(todo_), x |-> r1],
    [op |-> "addItem", arg |-> JStr(todos_), x |-> r2],
    [op |-> "addItem", arg |-> JStr(todos_), x |-> r5],
    [op |-> "addItem", arg |-> JStr(todos_), x |-> JNull],
    [op |-> "addItem", arg |-> JStr(todos_), x |-> JStr(a_)],
    [op |-> "updateItem", arg |-> JStr(todos_), x |-> u1],
    [op |-> "updateItem", arg |-> JStr(todos_), x |-> r1],
    [op |-> "getAll", arg |-> JStr(todos_), x |-> JNull],
    [op |-> "getAll", arg |-> JStr(a_), x |-> JNull],
    [op |-> "getItem", arg |-> JStr(todos_), x |-> JNum(1)],
    [op |-> "deleteItem", arg |-> JStr(todos_), x |-> JNum(1)],
    [op |-> "deleteItem", arg |-> JStr(todos_), x |-> JNum(9)],
    [op |-> "deleteItem", arg |-> JNull, x |-> JNum(1)] }

CrudCallers == 1..MaxCrudCallers

NextCrud ==
  \/ OpenNoUpgrade
  \/ OpenUpgrade
  \/ \E t \in CrudCallers, c \in CrudCalls : CallItem(t, c.op, c.arg, c.x)

\* The layer with an application that creates, reads, updates and removes
\* records.
SpecCrud == Init /\ [][NextCrud]_vars

\* ---------------------------------------------------------------- legacy opens
n_ShareHive == <<"S","h","a","r","e","H","i","v","e">>
n_SHAREHIVE == <<"S","H","A","R","E","H","I","V","E">>
n_Share_us_Hive == <<"S","h","a","r","e","_","H","i","v","e">>
n_SHARE_da_HIVE == <<"S","H","A","R","E","-","H","I","V","E">>
n_mysharehive2 == <<"m","y","s","h","a","r","e","h","i","v","e","2">>
n_x_da_share_us_hive == <<"x","-","s","h","a","r","e","_","h","i","v","e">>
n_HiveDB == <<"H","i","v","e","D","B">>
n_share_sp_hive == <<"s","h","a","r","e"," ","h","i","v","e">>
n_sharehiv == <<"s","h","a","r","e","h","i","v">>
n_shar_da_ehive == <<"s","h","a","r","-","e","h","i","v","e">>
n_ShareHiv_us_DB == <<"S","h","a","r","e","H","i","v","_","D","B">>

\* Names application code passes to indexedDB.open.
OpenNames ==
  { JStr(n_ShareHive), JStr(sharehive_), JStr(n_SHAREHIVE),
    JStr(share_us_hive_), JStr(n_Share_us_Hive), JStr(share_da_hive_),
    JStr(n_SHARE_da_HIVE), JStr(ShareHiveDB_), JStr(sharehivedb_),
    JStr(n_mysharehive2), JStr(n_x_da_share_us_hive), JStr(TARGET_NAME),
    JStr(n_HiveDB), JStr(n_share_sp_hive), JStr(n_sharehiv),
    JStr(n_shar_da_ehive), JStr(n_ShareHiv_us_DB), JStr(notes_),
    JStr(<< >>), JNum(42), JNull }

OpenVersions == { NoVersion, 0, 1, 2, 3 }

\* Application code calls the patched indexedDB.open (lines 35-48); the
\* arguments nativeOpen receives are recorded.
LegacyOpen(name, version) ==
  /\ lastOpen' = OpenCall(name, version)
  /\ UNCHANGED << storeVersion, storeNames, handles, queue, tasks, cacheDb,
                  hiveDB, created, lastUpgrade, externals, records, keygen >>

NextOpen == \E name \in OpenNames, version \in OpenVersions : LegacyOpen(name, version)

SpecOpen == Init /\ [][NextOpen]_vars

\* ---------------------------------------------------------------- properties
Settled(t) == tasks[t].pc \in { "done", "failed" }

OpenHandles == { i \in DOMAIN handles : handles[i].state = "open" }

\* C1: whenever ensureDB or createMissingStores resolves, the handle it
\* resolves with lists every store of the wanted set.
C1_ResolvedHandleHasWanted ==
  \A t \in Tasks :
    /\ tasks[t].ensRes # 0 => EnsureWanted \subseteq handles[tasks[t].ensRes].names
    /\ tasks[t].cmsRes # 0 => tasks[t].cmsWanted \subseteq handles[tasks[t].cmsRes].names

\* C2: _getDB never returns a handle that the versionchange handler has
\* closed; the operation that asked for it does not fail on a closed handle.
C2_GetDBReopensClosedHandle ==
  \A t \in Tasks :
    tasks[t].getDBRet # 0 =>
      /\ tasks[t].getDBState # "versionchange"
      /\ tasks[t].err # "InvalidStateError"

\* C3: when _validateStore has provisioned a store, dbHelpers.db is the new
\* handle the upgrade produced.
C3_ProvisionedHandleInstalled ==
  \A t \in Tasks : tasks[t].prov => tasks[t].cacheAfter = tasks[t].db

\* C4: at most one connection opened by this layer is open at a time.
C4_AtMostOneOpenHandle == Cardinality(OpenHandles) <= 1

\* C5: every reopen requests the observed version plus one, every change of
\* the store version raises it by exactly one, and it never decreases.
C5_RequestsObservedPlusOne ==
  \A i \in DOMAIN queue :
    tasks[queue[i].task].pc = "reopen" =>
      queue[i].version = tasks[queue[i].task].obsVersion + 1

C5_Monotonic ==
  /\ []C5_RequestsObservedPlusOne
  /\ [][ /\ storeVersion' >= storeVersion
         /\ storeVersion' # storeVersion => storeVersion' = storeVersion + 1
         /\ lastUpgrade' # lastUpgrade =>
              /\ lastUpgrade'.from = storeVersion
              /\ lastUpgrade'.to = storeVersion + 1
              /\ storeVersion' = storeVersion + 1 ]_vars

\* A provisioning upgrade of an existing store has run, twice in a row.
C5_Witness ==
  /\ lastUpgrade.task \in Tasks
  /\ lastUpgrade.from >= 2
  /\ lastUpgrade.creates # {}
  /\ storeVersion = lastUpgrade.from + 1

\* C6: when two concurrent provisioning calls observed the same store missing
\* at the same version and both have settled, the store exists, it was created
\* exactly once, and neither call failed with a duplicate-creation error.
C6_CreatedExactlyOnce ==
  \A t \in Tasks : \A u \in tasks[t].peers :
    (Settled(t) /\ Settled(u)) =>
      /\ tasks[t].err # "ConstraintError"
      /\ tasks[u].err # "ConstraintError"
      /\ \A n \in tasks[t].shared :
           n \in tasks[u].missing => (n \in storeNames /\ created[n] = 1)

\* C7: an ensure call made when every required store exists and no upgrade is
\* pending resolves with a handle at the version the store had before the call,
\* without closing and reopening, and leaves version and stores as they were.
C7_EnsureIdempotent ==
  \A t \in Tasks :
    ( /\ tasks[t].op \in { "ensure", "bootstrap" }
      /\ Settled(t)
      /\ EnsureWanted \subseteq tasks[t].names0
      /\ tasks[t].quiet0 ) =>
        /\ tasks[t].pc = "done"
        /\ ~tasks[t].reopened
        /\ handles[tasks[t].db].version = tasks[t].v0
        /\ tasks[t].vRes = tasks[t].v0
        /\ tasks[t].namesRes = tasks[t].names0

\* Two ensure calls, one after the other resolved, on a complete store.
C7_Witness ==
  \E t, u \in Callers :
    /\ t < u
    /\ \A x \in { t, u } :
         /\ tasks[x].op = "ensure"
         /\ tasks[x].pc = "done"
         /\ EnsureWanted \subseteq tasks[x].names0
         /\ tasks[x].quiet0
    /\ tasks[t].db # tasks[u].db

\* C8: no operation fails with ContainerMissing.
C8_NeverContainerMissing ==
  \A t \in Tasks : tasks[t].err # "ContainerMissing"

\* C9: the handle _validateStore returns lists the normalized store name, so
\* no transaction is started on a handle without the store.
C9_ValidatedHandleHasStore ==
  \A t \in Tasks :
    /\ tasks[t].validated => tasks[t].name \in handles[tasks[t].db].names
    /\ tasks[t].err # "NotFoundError"

\* _validateStore returned a handle after provisioning a store that was missing.
C9_Witness ==
  \E t \in Callers :
    /\ tasks[t].validated
    /\ tasks[t].prov
    /\ tasks[t].name = a_
    /\ tasks[t].db # tasks[t].getDBRet

\* C10: a name that contains, in any letter case, one of the legacy spellings
\* reaches the engine as 'hivedb'; every other name, and every name that is not
\* a string, reaches it unmodified.
LegacySpellings == { sharehive_, share_us_hive_, share_da_hive_, ShareHiveDB_ }

IsLegacyName(s) ==
  \E L \in LegacySpellings : \E k \in 1..Len(s) :
    /\ k + Len(L) - 1 <= Len(s)
    /\ \A j \in 1..Len(L) : LowerChar(s[k + j - 1]) = LowerChar(L[j])

C10_NameNormalized ==
  IF lastOpen.reqName.type = "string" /\ IsLegacyName(lastOpen.reqName.val)
  THEN lastOpen.name = JStr(TARGET_NAME)
  ELSE lastOpen.name = lastOpen.reqName

\* A mixed-case legacy spelling with a separator was opened and rewritten.
C10_Witness ==
  /\ lastOpen.reqName = JStr(n_Share_us_Hive)
  /\ lastOpen.name = JStr(TARGET_NAME)


\* C11: an open without a version reaches the engine without one; a version
\* below TARGET_VERSION reaches it as TARGET_VERSION; a version at or above it
\* reaches it unchanged.
C11_VersionNormalized ==
  /\ (lastOpen.reqVersion = NoVersion) <=> (lastOpen.version = NoVersion)
  /\ lastOpen.reqVersion # NoVersion =>
       /\ lastOpen.version >= TARGET_VERSION
       /\ lastOpen.version >= lastOpen.reqVersion
       /\ lastOpen.version \in { lastOpen.reqVersion, TARGET_VERSION }

\* A version below the minimum was raised, or one above it was kept.
C11_Witness ==
  \/ lastOpen.reqVersion = 0 /\ lastOpen.version = TARGET_VERSION
  \/ lastOpen.reqVersion = 3 /\ lastOpen.version = 3


\* C16: while a provisioning reopen is waiting in the engine, the handle that
\* call of createMissingStores was given is closed: the close of line 150
\* comes before the open of line 151.
C16_ClosedBeforeReopen ==
  \A i \in DOMAIN queue :
    LET t == queue[i].task
    IN tasks[t].pc = "reopen" =>
         /\ tasks[t].cmsDb # 0
         /\ handles[tasks[t].cmsDb].state # "open"
         /\ queue[i].version = handles[tasks[t].cmsDb].version + 1

\* A reopen is waiting whose handle was closed by createMissingStores itself.
C16_Witness ==
  \E i \in DOMAIN queue :
    LET t == queue[i].task
    IN /\ tasks[t].pc = "reopen"
       /\ handles[tasks[t].cmsDb].state = "closed"
       /\ queue[i].missing # {}


\* C19: every handle _validateStore returns is open when it returns it, so no
\* operation starts its transaction on a closed handle.
C19_ValidatedHandleOpen ==
  \A t \in Tasks : tasks[t].validated => tasks[t].txState = "open"

\* C20: no store is ever removed, every upgrade triggered by a provisioning
\* reopen creates at least one store, and the store version never exceeds its
\* initial value plus the number of stores this layer has created.
CreatedStores == { n \in AllStoreNames : created[n] >= 1 }

InitialVersion == tasks[Boot].v0

C20_NoStoreRemoved == [][storeNames \subseteq storeNames']_vars

C20_ReopenUpgradeCreates == lastUpgrade.reopen => lastUpgrade.creates # {}

C20_VersionBoundedByCreations ==
  /\ C20_NoStoreRemoved
  /\ []C20_ReopenUpgradeCreates
  /\ [](storeVersion <= InitialVersion + Cardinality(CreatedStores))

\* C20 as amended: the bound counts from version 1 when the database did not
\* exist, because the unversioned open of ensureDB creates it at version 1
\* without any store.
C20_VersionBoundedFromFirstOpen ==
  /\ C20_NoStoreRemoved
  /\ []C20_ReopenUpgradeCreates
  /\ [](storeVersion <= (IF InitialVersion = 0 THEN 1 ELSE InitialVersion)
                          + Cardinality(CreatedStores))

\* A database that did not exist has been created and then provisioned, and a
\* later reopen has added one more store.
C20_Witness ==
  /\ InitialVersion = 0
  /\ lastUpgrade.reopen
  /\ lastUpgrade.creates = { a_ }
  /\ storeVersion = 3


\* C18: a call whose open request fails rejects with the engine's error and
\* issues no further open request; an operation called after such a failure
\* re-enters the recovery path of _getDB, so it is not handed a closed handle.
C18_FailurePropagatedThenRecovered ==
  \A t \in Tasks :
    /\ tasks[t].err = "VersionError" =>
         /\ tasks[t].pc = "failed"
         /\ \A i \in DOMAIN queue : queue[i].task # t
    /\ (tasks[t].afterErr /\ tasks[t].getDBRet # 0) =>
         tasks[t].getDBState = "open"


\* C17: every connection of this layer carries the closing onversionchange
\* handler, and every call that waits for an open request eventually settles.
C17_AllHandlersSet ==
  \A i \in DOMAIN handles : handles[i].onversionchange

C17_NoCallWaiting ==
  \A t \in Tasks : tasks[t].pc \notin { "open", "reopen" }

\* A call settles once and never waits again, and there are finitely many
\* calls, so "each waiting call eventually settles" is "again and again no call
\* is waiting".
C17_EveryCallSettles ==
  /\ []C17_AllHandlersSet
  /\ []<>C17_NoCallWaiting

\* An upgrade requested by one call closed a connection another call had
\* opened, through its onversionchange handler, and the requesting call settled.
C17_Witness ==
  /\ lastUpgrade.reopen
  /\ Settled(lastUpgrade.task)
  /\ \E i \in DOMAIN handles : handles[i].state = "versionchange"


\* C12: a create that returns, returns the key the container's key generator
\* held when the request ran, whatever id the caller's record carried; no
\* record already in the container has that id, the record is stored under it,
\* and the caller's object is as it was passed.
C12_CreateAssignsFreshId ==
  \A t \in Tasks :
    (tasks[t].op = "addItem" /\ tasks[t].pc = "done") =>
      /\ tasks[t].key = tasks[t].kg0
      /\ \A r \in tasks[t].before : r.id # tasks[t].key
      /\ [id |-> tasks[t].key, text |-> tasks[t].item.text] \in tasks[t].after
      /\ \A r \in tasks[t].after :
           r.id = tasks[t].key => r.text = tasks[t].item.text
      /\ tasks[t].itemAfter = tasks[t].item

\* A create whose record carried the id of a record already in the container
\* returned another id.
C12_Witness ==
  \E t \in Tasks :
    /\ tasks[t].op = "addItem"
    /\ tasks[t].pc = "done"
    /\ tasks[t].item.hasId
    /\ \E r \in tasks[t].before : r.id = tasks[t].item.id
    /\ tasks[t].key # tasks[t].item.id


RecordOps == { "addItem", "getAll", "getItem", "updateItem", "deleteItem" }

\* The call of task t has an empty or absent container name, is a create
\* given no structured record, or is an update given a record without id.
C13_InvalidCall(t) ==
  /\ tasks[t].op \in RecordOps
  /\ \/ Falsy(tasks[t].arg)
     \/ tasks[t].op = "addItem" /\ tasks[t].item.type # "object"
     \/ /\ tasks[t].op = "updateItem"
        /\ tasks[t].item.type = "object" => ~tasks[t].item.hasId

C13_FailedAtOnce ==
  \A t \in Tasks :
    C13_InvalidCall(t) =>
      /\ tasks[t].pc = "failed"
      /\ tasks[t].err = "InvalidArgument"
      /\ tasks[t].getDBRet = 0
      /\ tasks[t].db = 0
      /\ ~tasks[t].reopened

C13_NoStoreAccess ==
  \A t \in Tasks :
    (~Started(t) /\ C13_InvalidCall(t)') =>
      UNCHANGED << storeVersion, storeNames, handles, queue, cacheDb, hiveDB,
                   lastOpen, records, keygen, created >>

\* C13: a call with an invalid argument fails with InvalidArgument in the step
\* that makes it, and that step opens nothing and leaves the cached handle,
\* the store version, the container set and every record as they were.
C13_InvalidArgumentBeforeAccess ==
  /\ []C13_FailedAtOnce
  /\ [][C13_NoStoreAccess]_vars

\* With a handle cached and a record stored, an update without id, a create
\* without a record or a remove without a container name has failed.
C13_Witness ==
  /\ cacheDb # 0
  /\ records[todos_] # {}
  /\ \E t \in Tasks : C13_InvalidCall(t) /\ tasks[t].err = "InvalidArgument"

TodoNames == { JStr(todo_), JStr(todos_) }

\* Every call made so far is a create or a listAll on 'todo' or 'todos'.
C14_OnlyTodoCalls ==
  \A u \in Callers :
    Started(u) =>
      /\ tasks[u].op \in { "addItem", "getAll" }
      /\ tasks[u].arg \in TodoNames
      /\ ~C13_InvalidCall(u)

C14_NoTodoContainer ==
  /\ todo_ \notin storeNames
  /\ created[todo_] = 0
  /\ records[todo_] = {}
  /\ C14_OnlyTodoCalls =>
       \A t \in Callers : Settled(t) => tasks[t].pc = "done"

\* A create on either name adds its record to 'todos' and to nothing else; a
\* listAll on either name returns the records of 'todos'.
C14_SameContainer ==
  \A t \in Callers :
    (~Settled(t) /\ tasks'[t].pc = "done" /\ tasks'[t].arg \in TodoNames) =>
      /\ tasks'[t].op = "addItem" =>
           /\ records'[todos_] =
                records[todos_] \cup { [id |-> tasks'[t].key,
                                        text |-> tasks'[t].item.text] }
           /\ tasks'[t].key \notin { r.id : r \in records[todos_] }
           /\ \A n \in AllStoreNames \ { todos_ } : records'[n] = records[n]
      /\ tasks'[t].op = "getAll" =>
           /\ tasks'[t].got = records[todos_]
           /\ records' = records

\* C14: 'todo' and 'todos' are one container: creates under either name put
\* their records in 'todos', listAll under either name returns them, creates
\* and listAlls on these names alone never fail, and no container 'todo' exists.
C14_AliasSameContainer ==
  /\ []C14_NoTodoContainer
  /\ [][C14_SameContainer]_vars

\* create('todo', r1) and a create on 'todos' have both returned and 'todos'
\* holds both records.
C14_Witness ==
  /\ \E t, u \in Callers :
       /\ tasks[t].op = "addItem" /\ tasks[t].arg = JStr(todo_)
       /\ tasks[u].op = "addItem" /\ tasks[u].arg = JStr(todos_)
       /\ tasks[t].pc = "done" /\ tasks[u].pc = "done"
       /\ { tasks[t].key, tasks[u].key } \subseteq { r.id : r \in records[todos_] }
       /\ tasks[t].key # tasks[u].key
  /\ Cardinality(records[todos_]) = 2

\* C15: a remove that finds its container on the cached handle and names an id
\* no record of the container has, completes without error and changes no
\* record, nor the store version, nor the container set.
C15_RemoveAbsentStep ==
  \A t \in Callers :
    ( /\ ~Started(t)
      /\ tasks'[t].op = "deleteItem"
      /\ cacheDb # 0
      /\ tasks'[t].name \in storeNames
      /\ tasks'[t].name \in handles[cacheDb].names
      /\ Number(tasks'[t].item).ok
      /\ \A r \in records[tasks'[t].name] : r.id # Number(tasks'[t].item).val )
    => /\ tasks'[t].pc = "done"
       /\ UNCHANGED << records, storeVersion, storeNames >>

C15_RemoveAbsentIsNoOp == [][C15_RemoveAbsentStep]_vars

====
